---- MODULE Spec2Model ----
(***************************************************************************)
(* Model of data.py: the sales CSV pipeline                                *)
(*   parse args -> (file dialog) -> load_csv -> basic_eda ->               *)
(*   sales_by_product -> monthly_sales_trend -> to_csv.                    *)
(*                                                                         *)
(* A cell is <<>> when missing (NaN / NaT) and <<v>> when it holds v.      *)
(* A table is [columns |-> sequence of names, rows |-> sequence of rows],  *)
(* a row being a record over the table's columns.                          *)
(* A 'Date' cell holds the text "YYYY-MM-DD" as [y, m, d]; a 'Sales' cell   *)
(* holds an integer; a 'Product' cell holds a label.                       *)
(***************************************************************************)
EXTENDS Integers, Sequences, FiniteSets, TLC

VARIABLES pc, argFile, fs, csv_path, df, agg, trend, events, written

vars == <<pc, argFile, fs, csv_path, df, agg, trend, events, written>>

\* ------------------------------------------------------------------ bounds
MaxRows == 3
MaxNameLen == 3

\* ------------------------------------------------------------- generic helpers
Range(s) == {s[i] : i \in 1..Len(s)}

SeqsUpTo(S, n) == UNION {[1..k -> S] : k \in 0..n}

NA == <<>>

IsNA(c) == Len(c) = 0

\* r[c], missing when the row has no such column
Cell(r, c) == IF c \in DOMAIN r THEN r[c] ELSE NA

\* ------------------------------------------------------------------ paths
\* A path is [dir, name]; name is a sequence of characters.  NoPath is the
\* falsy value: args.file = None, or "" returned by a cancelled dialog.
NoPath == [dir |-> "", name |-> <<>>]

RECURSIVE RFind(_, _)
\* name.rfind(ch): the last index holding ch, 0 when there is none
RFind(name, ch) ==
  IF Len(name) = 0 THEN 0
  ELSE IF name[Len(name)] = ch THEN Len(name)
  ELSE RFind(SubSeq(name, 1, Len(name) - 1), ch)

\* PurePath.suffix: the last dot counts unless it leads or ends the name
Suffix(name) ==
  LET i == RFind(name, ".")
  IN IF 1 < i /\ i < Len(name) THEN SubSeq(name, i, Len(name)) ELSE <<>>

\* PurePath.stem
Stem(name) ==
  LET i == RFind(name, ".")
  IN IF 1 < i /\ i < Len(name) THEN SubSeq(name, 1, i - 1) ELSE name

CleanedTag == <<"_cleaned">>

\* faulty variant: csv_path.with_name(csv_path.name + "_cleaned")
WithNameAppended(p) == [dir |-> p.dir, name |-> p.name \o CleanedTag]

\* csv_path.with_stem(csv_path.stem + "_cleaned")
\*   = with_name(stem + "_cleaned" + suffix), same parent directory
OutPath(p) == [dir |-> p.dir, name |-> Stem(p.name) \o CleanedTag \o Suffix(p.name)]

\* faulty variant: the existence test is lost
ExistsAlways(fsys, p) == TRUE

\* path.exists()
Exists(fsys, p) == p \in DOMAIN fsys

\* ------------------------------------------------------------------ tables
NoFrame == [columns |-> <<>>, rows |-> <<>>]

\* faulty variant: any of the expected columns is enough
HasAnyColumn(d, S) == S \cap Range(d.columns) # {}

\* S.issubset(df.columns)
HasColumns(d, S) == S \subseteq Range(d.columns)

\* faulty variant: .count() in place of .sum()
RECURSIVE SeriesCount(_)
SeriesCount(rows) ==
  IF Len(rows) = 0 THEN 0
  ELSE (IF IsNA(Cell(rows[1], "Sales")) THEN 0 ELSE 1) + SeriesCount(Tail(rows))

RECURSIVE SeriesSumRec(_)
SeriesSumRec(rows) ==
  IF Len(rows) = 0 THEN 0
  ELSE (IF IsNA(Cell(rows[1], "Sales")) THEN 0 ELSE Cell(rows[1], "Sales")[1])
       + SeriesSumRec(Tail(rows))

\* ["Sales"].sum() of a group: missing values are skipped, an empty sum is 0
SeriesSum(rows) == SeriesSumRec(rows)

SelectRows(rows, col, k) == SelectSeq(rows, LAMBDA r : Cell(r, col) = <<k>>)

RECURSIVE SortedBy(_, _)
\* the elements of S in ascending order of ord[.] (ord is injective on S)
SortedBy(S, ord) ==
  IF S = {} THEN <<>>
  ELSE LET m == CHOOSE x \in S : \A y \in S : ord[x] <= ord[y]
       IN <<m>> \o SortedBy(S \ {m}, ord)

GroupKeys(rows, col) ==
  {Cell(rows[i], col)[1] : i \in {j \in 1..Len(rows) : ~IsNA(Cell(rows[j], col))}}

\* faulty variant: the group keeps its last row's value instead of accumulating
GroupbyLast(rows, col, ord) ==
  LET order == SortedBy(GroupKeys(rows, col), ord)
  IN [i \in 1..Len(order) |->
        LET g == SelectRows(rows, col, order[i])
        IN [key |-> order[i], value |-> SeriesSum(<<g[Len(g)]>>)]]

\* df.groupby(col)["Sales"].sum(): rows with a missing key are dropped
\* (dropna=True), one entry per distinct key, entries in ascending key order
\* (sort=True)
GroupbySum(rows, col, ord) ==
  LET order == SortedBy(GroupKeys(rows, col), ord)
  IN [i \in 1..Len(order) |->
        [key |-> order[i], value |-> SeriesSum(SelectRows(rows, col, order[i]))]]

\* ---------------------------------------------------------------- products
Products == <<"A", "B">>

\* the order of str comparison on the labels used
LabelOrd == [p \in Range(Products) |-> CHOOSE i \in 1..Len(Products) : Products[i] = p]

Arrangements(s) ==
  {t \in [1..Len(s) -> Range(s)] : \A i, j \in 1..Len(s) : i # j => t[i] # t[j]}

\* faulty variant: sort_values() with the default ascending=True
SortValuesAscending(s) ==
  {t \in Arrangements(s) : \A i \in 1..(Len(s) - 1) : t[i].value <= t[i + 1].value}

\* Series.sort_values(ascending=False): the default kind is 'quicksort',
\* which is not a stable sort, so every descending arrangement is an outcome
SortValues(s) ==
  {t \in Arrangements(s) : \A i \in 1..(Len(s) - 1) : t[i].value >= t[i + 1].value}

\* ------------------------------------------------------------------- dates
IsLeap(y) == (y % 4 = 0 /\ y % 100 # 0) \/ y % 400 = 0

DaysInMonth(y, m) ==
  IF m = 2 THEN (IF IsLeap(y) THEN 29 ELSE 28)
  ELSE IF m \in {4, 6, 9, 11} THEN 30 ELSE 31

Parseable(t) == t.m \in 1..12 /\ t.d \in 1..DaysInMonth(t.y, t.m)

\* faulty variant: errors="coerce", an unparseable value becomes NaT
CanConvertCoerce(rows) == TRUE

\* pd.to_datetime(df["Date"]) raises (errors="raise") unless every present
\* value is a date
CanConvert(rows) ==
  \A i \in 1..Len(rows) :
    IsNA(Cell(rows[i], "Date")) \/ Parseable(Cell(rows[i], "Date")[1])

\* pd.to_datetime on one cell: NaN -> NaT, text -> Timestamp
ToDatetime(c) ==
  IF IsNA(c) \/ ~Parseable(c[1]) THEN NA
  ELSE <<[year |-> c[1].y, month |-> c[1].m, day |-> c[1].d]>>

\* faulty variant: the month number alone, the year is lost
ToPeriodMonthOnly(c) == IF IsNA(c) THEN NA ELSE <<c[1].month - 1>>

\* .dt.to_period("M"): the Period's ordinal, months since 1970-01; NaT stays NaT
ToPeriod(c) == IF IsNA(c) THEN NA ELSE <<(c[1].year - 1970) * 12 + (c[1].month - 1)>>

\* df["Date"] = pd.to_datetime(df["Date"])
WithDate(d) ==
  [columns |-> d.columns,
   rows |-> [i \in 1..Len(d.rows) |->
               [c \in DOMAIN d.rows[i] |->
                  IF c = "Date" THEN ToDatetime(d.rows[i][c]) ELSE d.rows[i][c]]]]

\* df["Month"] = df["Date"].dt.to_period("M"): a new last column
WithMonth(d) ==
  [columns |-> Append(d.columns, "Month"),
   rows |-> [i \in 1..Len(d.rows) |->
               [c \in DOMAIN d.rows[i] \cup {"Month"} |->
                  IF c = "Month" THEN ToPeriod(Cell(d.rows[i], "Date"))
                  ELSE d.rows[i][c]]]]

\* faulty variant: no df.copy(), the assignments land in the caller's table
CallerFrameAliased(orig, work) == work

\* df = df.copy(): the column assignments go to the copy, the caller's table
\* is the one it passed in
CallerFrame(orig, work) == orig

\* faulty variant: plt.show() returns at once
AfterShowNonBlocking(kind) == IF kind = "bar" THEN "monthly" ELSE "write"

\* plt.show() blocks until the chart window is dismissed
AfterShow(kind) == IF kind = "bar" THEN "bar_open" ELSE "line_open"

\* ------------------------------------------------------------------ inputs
Dirs == {"d1", "d2"}

\* file names over the characters 'a' and '.'; "." and ".." name directories
Names == SeqsUpTo({"a", "."}, MaxNameLen) \ {<<>>, <<".">>, <<".", ".">>}

Paths == [dir : Dirs, name : Names]

InputPath == [dir |-> "d1", name |-> <<"a", ".", "a">>]

Day(y, m, d) == <<[y |-> y, m |-> m, d |-> d]>>

BadDate == Day(2023, 2, 30)

RECURSIVE RowsOver(_, _)
\* every row over the columns cols with each cell drawn from dom[column]
RowsOver(cols, dom) ==
  IF Len(cols) = 0 THEN {[c \in {} |-> NA]}
  ELSE {(cols[1] :> v) @@ r : v \in dom[cols[1]], r \in RowsOver(Tail(cols), dom)}

\* every table with the given columns, at most MaxRows rows, cells from dom
TablesOver(cols, dom) ==
  {[columns |-> cols, rows |-> rs] : rs \in SeqsUpTo(RowsOver(cols, dom), MaxRows)}

ColumnLists ==
  {<<"Region">>, <<"Product">>, <<"Sales">>, <<"Date">>, <<"Product", "Date">>,
   <<"Product", "Sales">>, <<"Date", "Sales">>, <<"Date", "Product", "Sales">>}

SmallDom ==
  [c \in {"Region", "Product", "Sales", "Date"} |->
     CASE c = "Region" -> {<<"N">>}
       [] c = "Product" -> {NA, <<"A">>}
       [] c = "Sales" -> {NA, <<5>>}
       [] c = "Date" -> {BadDate, Day(2023, 1, 5)}]

ProductDom ==
  [c \in {"Product", "Sales"} |->
     IF c = "Product" THEN {NA, <<"A">>, <<"B">>} ELSE {NA, <<5>>, <<10>>}]

TrendDom ==
  [c \in {"Date", "Sales"} |->
     IF c = "Date"
     THEN {NA, BadDate, Day(2023, 1, 5), Day(2023, 1, 20), Day(2023, 2, 1), Day(2024, 1, 5)}
     ELSE {NA, <<5>>, <<10>>}]

ExampleProductTable ==
  [columns |-> <<"Product", "Sales">>,
   rows |-> <<[Product |-> <<"A">>, Sales |-> <<10>>],
              [Product |-> <<"B">>, Sales |-> <<5>>],
              [Product |-> <<"A">>, Sales |-> <<3>>]>>]

ExampleTrendTable ==
  [columns |-> <<"Date", "Sales">>,
   rows |-> <<[Date |-> Day(2023, 1, 5), Sales |-> <<10>>],
              [Date |-> Day(2023, 1, 20), Sales |-> <<5>>],
              [Date |-> Day(2023, 2, 1), Sales |-> <<7>>]>>]

Tables ==
  UNION {TablesOver(cols, SmallDom) : cols \in ColumnLists}
    \cup TablesOver(<<"Product", "Sales">>, ProductDom)
    \cup TablesOver(<<"Date", "Sales">>, TrendDom)
    \cup {ExampleProductTable, ExampleTrendTable}

NoFiles == [p \in {} |-> NoFrame]

\* ------------------------------------------------------------------- state
Init ==
  /\ pc = "start"
  /\ \/ /\ argFile \in Paths \cup {NoPath}
        /\ fs \in {NoFiles} \cup {(q :> ExampleProductTable) : q \in Paths}
     \/ /\ argFile = InputPath
        /\ fs \in {(InputPath :> t) : t \in Tables}
  /\ csv_path = NoPath
  /\ df = NoFrame
  /\ agg = <<>>
  /\ trend = <<>>
  /\ events = <<>>
  /\ written = NoFiles

\* ----------------------------------------------------------------- actions
\* main, lines 76-80: csv_path = args.file or choose_file_gui()
ParseArgs ==
  /\ pc = "start"
  /\ IF argFile # NoPath
     THEN csv_path' = argFile /\ pc' = "load"
     ELSE csv_path' = csv_path /\ pc' = "dialog"
  /\ UNCHANGED <<argFile, fs, df, agg, trend, events, written>>

\* choose_file_gui: the user picks a path or cancels ("" is returned)
ChooseFileGui ==
  /\ pc = "dialog"
  /\ \E file_path \in Paths \cup {NoPath} :
       IF file_path = NoPath
       THEN /\ events' = Append(events, "exit: No file selected")
            /\ pc' = "exited"
            /\ csv_path' = csv_path
       ELSE /\ csv_path' = file_path
            /\ pc' = "load"
            /\ events' = events
  /\ UNCHANGED <<argFile, fs, df, agg, trend, written>>

\* load_csv
LoadCsv ==
  /\ pc = "load"
  /\ IF ~Exists(fs, csv_path)
     THEN /\ events' = Append(events, "exit: File not found")
          /\ pc' = "exited"
          /\ df' = df
     ELSE IF csv_path \notin DOMAIN fs
     THEN \* pd.read_csv raises FileNotFoundError
          /\ events' = Append(events, "raise: read_csv")
          /\ pc' = "crashed"
          /\ df' = df
     ELSE /\ df' = fs[csv_path]
          /\ events' = Append(events, "print: Loaded")
          /\ pc' = "eda"
  /\ UNCHANGED <<argFile, fs, csv_path, agg, trend, written>>

\* basic_eda: three prints, the table is only read
BasicEda ==
  /\ pc = "eda"
  /\ events' = Append(events, "print: profile")
  /\ pc' = "product"
  /\ UNCHANGED <<argFile, fs, csv_path, df, agg, trend, written>>

\* sales_by_product
SalesByProduct ==
  /\ pc = "product"
  /\ IF HasColumns(df, {"Product", "Sales"})
     THEN \E a \in SortValues(GroupbySum(df.rows, "Product", LabelOrd)) :
            /\ agg' = <<a>>
            /\ \/ /\ events' = events \o <<"print: Sales by Product", "chart: bar">>
                  /\ pc' = AfterShow("bar")
               \/ \* plotting an empty result raises in the plotting library
                  /\ Len(a) = 0
                  /\ events' = events \o <<"print: Sales by Product", "raise: bar plot">>
                  /\ pc' = "crashed"
     ELSE /\ pc' = "monthly"
          /\ UNCHANGED <<agg, events>>
  /\ UNCHANGED <<argFile, fs, csv_path, df, trend, written>>

\* the user dismisses the bar chart: plt.show() of line 55 returns
CloseBarChart ==
  /\ pc = "bar_open"
  /\ events' = Append(events, "closed: bar")
  /\ pc' = "monthly"
  /\ UNCHANGED <<argFile, fs, csv_path, df, agg, trend, written>>

\* monthly_sales_trend
MonthlySalesTrend ==
  /\ pc = "monthly"
  /\ IF HasColumns(df, {"Date", "Sales"})
     THEN IF CanConvert(df.rows)
          THEN LET work == WithMonth(WithDate(df))
                   t == GroupbySum(work.rows, "Month", [k \in Int |-> k])
               IN /\ df' = CallerFrame(df, work)
                  /\ trend' = <<t>>
                  /\ \/ /\ events' = Append(events, "chart: line")
                        /\ pc' = AfterShow("line")
                     \/ /\ Len(t) = 0
                        /\ events' = Append(events, "raise: line plot")
                        /\ pc' = "crashed"
          ELSE /\ events' = Append(events, "raise: to_datetime")
               /\ pc' = "crashed"
               /\ UNCHANGED <<df, trend>>
     ELSE /\ pc' = "write"
          /\ UNCHANGED <<df, trend, events>>
  /\ UNCHANGED <<argFile, fs, csv_path, agg, written>>

\* the user dismisses the line chart: plt.show() of line 69 returns
CloseLineChart ==
  /\ pc = "line_open"
  /\ events' = Append(events, "closed: line")
  /\ pc' = "write"
  /\ UNCHANGED <<argFile, fs, csv_path, df, agg, trend, written>>

\* main, lines 87-89: df.to_csv(out_path, index=False)
WriteCsv ==
  /\ pc = "write"
  /\ LET out_path == OutPath(csv_path)
     IN written' = (out_path :> df) @@ written
  /\ events' = Append(events, "write: csv")
  /\ pc' = "done"
  /\ UNCHANGED <<argFile, fs, csv_path, df, agg, trend>>

Next ==
  \/ ParseArgs
  \/ ChooseFileGui
  \/ LoadCsv
  \/ BasicEda
  \/ SalesByProduct
  \/ CloseBarChart
  \/ MonthlySalesTrend
  \/ CloseLineChart
  \/ WriteCsv

Spec == Init /\ [][Next]_vars

\* ------------------------------------------------------------------ claims
RECURSIVE ColumnTotal(_)
\* the total of the 'Sales' column over rows, a missing value counting 0
ColumnTotal(rows) ==
  IF Len(rows) = 0 THEN 0
  ELSE (IF Len(rows[1]["Sales"]) = 0 THEN 0 ELSE rows[1]["Sales"][1])
       + ColumnTotal(Tail(rows))

RECURSIVE ValueTotal(_)
ValueTotal(s) == IF Len(s) = 0 THEN 0 ELSE s[1].value + ValueTotal(Tail(s))

Present(rows, col) == SelectSeq(rows, LAMBDA r : Len(r[col]) = 1)

Columns == {df.columns[i] : i \in 1..Len(df.columns)}

Loaded == "print: Loaded" \in Range(events)

ProductRan == Len(agg) = 1

TrendRan == Len(trend) = 1

\* C1: in every run that reaches the Writer the table written is the table
\* load_csv returned, and no stage between load and write changes the table
\* the caller holds.
C1_WrittenTableIsLoadedTable ==
  /\ Loaded => df = fs[csv_path]
  /\ \A p \in DOMAIN written : written[p] = fs[csv_path]

C1_Witness ==
  /\ pc = "done"
  /\ ProductRan /\ TrendRan
  /\ Len(df.rows) >= 2
  /\ DOMAIN written # {}

\* C2 as stated: the per-product sums add up to the 'Sales' total over ALL rows.
C2_Original == ProductRan => ValueTotal(agg[1]) = ColumnTotal(df.rows)

\* C2: the per-product sums add up to the 'Sales' total over the rows whose
\* 'Product' is not missing (rows with a missing 'Product' belong to no group).
C2_SumOverRowsWithProduct ==
  ProductRan => ValueTotal(agg[1]) = ColumnTotal(Present(df.rows, "Product"))

C2_Witness ==
  /\ ProductRan
  /\ Len(agg[1]) = 2
  /\ \E i \in 1..Len(df.rows) :
       Len(df.rows[i]["Product"]) = 0 /\ Len(df.rows[i]["Sales"]) = 1

FirstRow(rows, col, k) == CHOOSE i \in 1..Len(rows) :
  /\ rows[i][col] = <<k>>
  /\ \A j \in 1..(i - 1) : rows[j][col] # <<k>>

Descending(s) == \A i \in 1..(Len(s) - 1) : s[i].value >= s[i + 1].value

ExampleProductResult == <<[key |-> "A", value |-> 13], [key |-> "B", value |-> 5]>>

\* C3 as stated: descending by summed 'Sales', equal sums in the order in
\* which the products are first met in the rows.
C3_Original ==
  ProductRan =>
    /\ Descending(agg[1])
    /\ \A i \in 1..(Len(agg[1]) - 1) :
         agg[1][i].value = agg[1][i + 1].value =>
           FirstRow(df.rows, "Product", agg[1][i].key)
             < FirstRow(df.rows, "Product", agg[1][i + 1].key)

\* C3: the result lists every product of the table once, in descending order
\* of summed 'Sales'; the example rows give [(A,13),(B,5)].  (No order among
\* equal sums is promised.)
C3_DescendingBySum ==
  ProductRan =>
    /\ Descending(agg[1])
    /\ {agg[1][i].key : i \in 1..Len(agg[1])}
         = {r["Product"][1] : r \in Range(Present(df.rows, "Product"))}
    /\ \A i, j \in 1..Len(agg[1]) : agg[1][i].key = agg[1][j].key => i = j
    /\ df = ExampleProductTable => agg[1] = ExampleProductResult

C3_Witness == ProductRan /\ df = ExampleProductTable /\ "chart: bar" \in Range(events)

\* C4 as stated: the per-month sums add up to the 'Sales' total over ALL rows.
C4_Original == TrendRan => ValueTotal(trend[1]) = ColumnTotal(df.rows)

\* C4: the per-month sums add up to the 'Sales' total over the rows whose
\* 'Date' is not missing (rows with a missing 'Date' belong to no month).
C4_SumOverRowsWithDate ==
  TrendRan => ValueTotal(trend[1]) = ColumnTotal(Present(df.rows, "Date"))

C4_Witness ==
  /\ TrendRan
  /\ Len(trend[1]) = 2
  /\ \E i \in 1..Len(df.rows) :
       Len(df.rows[i]["Date"]) = 0 /\ Len(df.rows[i]["Sales"]) = 1

\* the calendar month <<year, month>> a period ordinal stands for
MonthOf(k) == <<1970 + (k \div 12), (k % 12) + 1>>

Earlier(a, b) == a[1] < b[1] \/ (a[1] = b[1] /\ a[2] < b[2])

ExampleTrendResult ==
  <<[key |-> (2023 - 1970) * 12, value |-> 15], [key |-> (2023 - 1970) * 12 + 1, value |-> 7]>>

\* C5: the monthly result has exactly one entry per distinct calendar month
\* (year and month) among the rows' dates, in ascending chronological order
\* whatever the order of the rows; the example rows give
\* [(2023-01,15),(2023-02,7)].
C5_OneEntryPerMonthAscending ==
  TrendRan =>
    LET t == trend[1]
        months == {<<r["Date"][1].y, r["Date"][1].m>> : r \in Range(Present(df.rows, "Date"))}
    IN /\ {MonthOf(t[i].key) : i \in 1..Len(t)} = months
       /\ Len(t) = Cardinality(months)
       /\ \A i \in 1..(Len(t) - 1) : Earlier(MonthOf(t[i].key), MonthOf(t[i + 1].key))
       /\ df = ExampleTrendTable => t = ExampleTrendResult

C5_Witness ==
  /\ TrendRan
  /\ Len(trend[1]) = 2
  /\ Len(df.rows) = 3
  /\ \A i \in 1..3 : Len(df.rows[i]["Date"]) = 1
  /\ Earlier(<<df.rows[2]["Date"][1].y, df.rows[2]["Date"][1].m>>,
             <<df.rows[1]["Date"][1].y, df.rows[1]["Date"][1].m>>)
  /\ df.rows[3]["Date"] = df.rows[1]["Date"]
  /\ "chart: line" \in Range(events)

ProductStageOver == Loaded /\ pc \notin {"eda", "product"}

TrendStageOver ==
  \/ pc \in {"line_open", "write", "done"}
  \/ pc = "crashed" /\ events[Len(events)] \in {"raise: to_datetime", "raise: line plot"}

C7_MissingInputEndsRun ==
  /\ (csv_path = NoPath /\ pc \notin {"start", "dialog"}) =>
       /\ pc = "exited"
       /\ argFile = NoPath
       /\ events = <<"exit: No file selected">>
       /\ df = NoFrame /\ agg = <<>> /\ trend = <<>> /\ written = NoFiles
  /\ (csv_path # NoPath /\ csv_path \notin DOMAIN fs /\ pc # "load") =>
       /\ pc = "exited"
       /\ events = <<"exit: File not found">>
       /\ df = NoFrame /\ agg = <<>> /\ trend = <<>> /\ written = NoFiles

C7_Witness ==
  /\ pc = "exited"
  /\ argFile # NoPath
  /\ argFile \notin DOMAIN fs
  /\ DOMAIN fs # {}
  /\ events = <<"exit: File not found">>

\* e is the extension of name: the part from the last dot on, when that dot
\* is neither the first nor the last character; otherwise there is none
IsExtensionOf(e, name) ==
  \/ /\ e = <<>>
     /\ \A i \in 2..(Len(name) - 1) :
          name[i] = "." => \E j \in (i + 1)..Len(name) : name[j] = "."
  \/ /\ Len(e) >= 2
     /\ Len(e) < Len(name)
     /\ e[1] = "."
     /\ \A i \in 2..Len(e) : e[i] # "."

IsCleanedName(name, out) ==
  \E k \in 0..Len(name) :
    /\ out = SubSeq(name, 1, k) \o <<"_cleaned">> \o SubSeq(name, k + 1, Len(name))
    /\ IsExtensionOf(SubSeq(name, k + 1, Len(name)), name)

\* C8: a run that completes writes exactly one file, in the input's
\* directory, named as the input with '_cleaned' inserted before its
\* extension; no run writes to the input path.
C8_OutputPathBesideInput ==
  /\ csv_path \notin DOMAIN written
  /\ pc # "done" => written = NoFiles
  /\ pc = "done" =>
       /\ Cardinality(DOMAIN written) = 1
       /\ \A p \in DOMAIN written :
            p.dir = csv_path.dir /\ IsCleanedName(csv_path.name, p.name)

C8_Witness ==
  /\ pc = "done"
  /\ csv_path = [dir |-> "d2", name |-> <<".", ".", "a">>]
  /\ DOMAIN written = {[dir |-> "d2", name |-> <<".", "_cleaned", ".", "a">>]}

HasBadDate ==
  /\ {"Date", "Sales"} \subseteq Columns
  /\ \E i \in 1..Len(df.rows) :
       /\ Len(df.rows[i]["Date"]) = 1
       /\ LET t == df.rows[i]["Date"][1]
          IN ~(t.m \in 1..12 /\ t.d \in 1..DaysInMonth(t.y, t.m))

\* C9: with 'Date' and 'Sales' present and some 'Date' value unparseable,
\* monthly_sales_trend fails as a whole: no monthly result, no trend chart,
\* the error ends the process and no output file is written.
C9_UnparseableDateEndsRun ==
  (HasBadDate /\ TrendStageOver) =>
    /\ pc = "crashed"
    /\ events[Len(events)] = "raise: to_datetime"
    /\ trend = <<>>
    /\ "chart: line" \notin Range(events)
    /\ written = NoFiles

C9_Witness ==
  /\ pc = "crashed"
  /\ HasBadDate
  /\ events = <<"print: Loaded", "print: profile", "print: Sales by Product",
                "chart: bar", "closed: bar", "raise: to_datetime">>
  /\ \E i \in 1..Len(df.rows) : df.rows[i]["Date"] = Day(2023, 1, 5)

EventRank(e) ==
  CASE e = "print: Loaded" -> 1
    [] e = "print: profile" -> 2
    [] e = "print: Sales by Product" -> 3
    [] e = "chart: bar" -> 4
    [] e = "closed: bar" -> 5
    [] e = "chart: line" -> 6
    [] e = "closed: line" -> 7
    [] e = "write: csv" -> 8
    [] OTHER -> 9

ChartOpen(kind) ==
  ("chart: " \o kind) \in Range(events) /\ ("closed: " \o kind) \notin Range(events)

TrendStarted ==
  \/ TrendRan
  \/ Range(events) \cap {"chart: line", "raise: to_datetime", "raise: line plot"} # {}
  \/ pc \in {"line_open", "write", "done"}

\* C10: the stages happen in the order load, profile, product aggregation
\* and bar chart, monthly aggregation and line chart, write, each at most
\* once and after the previous one; the monthly aggregation does not start
\* while the bar chart is open, and nothing is written while a chart is open.
C10_StagesInOrder ==
  /\ \A i, j \in 1..Len(events) : i < j => EventRank(events[i]) < EventRank(events[j])
  /\ \A i \in 1..Len(events) :
       EventRank(events[i]) \in 2..8 =>
         /\ i >= 2
         /\ EventRank(events[i]) # 2 => events[2] = "print: profile"
         /\ events[1] = "print: Loaded"
  /\ "chart: bar" \in Range(events) => "print: Sales by Product" \in Range(events)
  /\ pc = "bar_open" <=> ChartOpen("bar")
  /\ pc = "line_open" <=> ChartOpen("line")
  /\ ChartOpen("bar") => ~TrendStarted
  /\ (ChartOpen("bar") \/ ChartOpen("line")) =>
       written = NoFiles /\ "write: csv" \notin Range(events)
  /\ written # NoFiles <=> "write: csv" \in Range(events)

C10_Witness ==
  /\ pc = "done"
  /\ events = <<"print: Loaded", "print: profile", "print: Sales by Product",
                "chart: bar", "closed: bar", "chart: line", "closed: line", "write: csv">>
  /\ DOMAIN written # {}

====
